---- MODULE Spec2Model ----
(***************************************************************************)
(* Alignment of site responses (qopen/site.py).                            *)
(*                                                                         *)
(* Number representation.  Every valid source energy W, site amplification *)
(* R, reference response and scale factor of the program is a positive     *)
(* real.  The model keeps such a number v by the rational q with v = 2^q,  *)
(* written <<"num", n, d>> (q = n/d in lowest terms, d > 0).  A product is *)
(* then a sum of exponents, a quotient a difference.  The missing-value    *)
(* sentinels are kept apart: <<"None", 0, 1>> and <<"NaN", 0, 1>>.         *)
(* Logarithms are taken to base 2: the least-squares solution is linear in *)
(* the right-hand side, so the base cancels between np.log and np.exp.     *)
(* Arithmetic is exact (rationals); float64 rounding is not modelled.      *)
(***************************************************************************)
EXTENDS Integers, Sequences, FiniteSets, TLC

\* ---------------------------------------------------------------- bounds
MaxEvents == 2
MaxFreqs == 2
MaxObs == 4
MaxExp == 1
MaxShapeEvents == 3

Stations == {"A", "B", "C"}

\* the fixed iteration order of a dict of stations (R.items())
StationOrder == <<"A", "B", "C">>

\* the stations observed in the calls on up to MaxShapeEvents events
ShapeStations == {"A", "B"}

\* ---------------------------------------------------------------- rationals
Abs(x) == IF x < 0 THEN -x ELSE x

RECURSIVE Gcd(_, _)
Gcd(a, b) == IF b = 0 THEN a ELSE Gcd(b, a % b)

Rat(n, d) ==
    LET g == Gcd(Abs(n), Abs(d))
        s == IF d < 0 THEN -1 ELSE 1
    IN  <<(s * n) \div g, (s * d) \div g>>

Zero == <<0, 1>>
One == <<1, 1>>
RAdd(p, q) == Rat(p[1] * q[2] + q[1] * p[2], p[2] * q[2])
RSub(p, q) == Rat(p[1] * q[2] - q[1] * p[2], p[2] * q[2])
RMul(p, q) == Rat(p[1] * q[1], p[2] * q[2])
RDiv(p, q) == Rat(p[1] * q[2], p[2] * q[1])
RNeg(p) == <<-p[1], p[2]>>
RLess(p, q) == p[1] * q[2] < q[1] * p[2]

RECURSIVE RSum(_)
RSum(s) == IF s = <<>> THEN Zero ELSE RAdd(s[1], RSum(Tail(s)))

Dot(u, v) == RSum([i \in 1..Len(u) |-> RMul(u[i], v[i])])

\* ---------------------------------------------------------------- values
None == <<"None", 0, 1>>
NaN == <<"NaN", 0, 1>>
Num(q) == <<"num", q[1], q[2]>>
Q(v) == <<v[2], v[3]>>

\* `x is None or np.isnan(x)` (site.py lines 65, 70, 99, 200, 248)
IsMissing(v) == v[1] = "None" \/ v[1] = "NaN"

\* the product a * b and the quotient a / b of two valid numbers
Mul(a, b) == Num(RAdd(Q(a), Q(b)))
Div(a, b) == Num(RSub(Q(a), Q(b)))
\* np.log of a valid number, np.exp of a solution component (base 2)
Log(v) == Rat(v[2], v[3])
Exp(q) == <<"num", q[1], q[2]>>

\* ---------------------------------------------------------------- sequences
RECURSIVE SeqFilter(_, _)
SeqFilter(s, keep) ==
    IF s = <<>> THEN <<>>
    ELSE IF s[1] \in keep THEN <<s[1]>> \o SeqFilter(Tail(s), keep)
         ELSE SeqFilter(Tail(s), keep)

Range(s) == {s[i] : i \in 1..Len(s)}

RECURSIVE UnionAll(_)
UnionAll(s) == IF s = <<>> THEN {} ELSE s[1] \cup UnionAll(Tail(s))

\* ---------------------------------------------------------------- _merge_sets
\* index of the first set of newsets that aset is not disjoint from, 0 if none
FirstOverlap(newsets, aset) ==
    LET hit == {j \in 1..Len(newsets) : newsets[j] \cap aset # {}}
    IN  IF hit = {} THEN 0 ELSE CHOOSE j \in hit : \A h \in hit : j <= h

\* MergeOne that merges into the last set of newsets, overlapping or not
MergeOneLast(sofar, aset) ==
    LET j == FirstOverlap(sofar, aset)
    IN  IF j = 0 THEN Append(sofar, aset)
        ELSE [sofar EXCEPT ![Len(sofar)] = sofar[Len(sofar)] \cup aset]

\* one iteration of the body of `for aset in sets` (lines 85-90)
MergeOne(newsets, aset) ==
    LET j == FirstOverlap(newsets, aset)
    IN  IF j = 0 THEN Append(newsets, aset)
        ELSE [newsets EXCEPT ![j] = newsets[j] \cup aset]

\* one pass of the while loop: the for loop over sets with newsets = [] (83-90)
RECURSIVE MergeLoopFrom(_, _)
MergeLoopFrom(sets, newsets) ==
    IF sets = <<>> THEN newsets
    ELSE MergeLoopFrom(Tail(sets), MergeOne(newsets, sets[1]))

MergePass(sets) == MergeLoopFrom(sets, <<>>)

\* the indices of the sets that the for loop appends to newsets (line 90),
\* in the order of newsets
RECURSIVE AppendedFrom(_, _, _, _)
AppendedFrom(sets, j, newsets, at) ==
    IF j > Len(sets) THEN at
    ELSE AppendedFrom(sets, j + 1, MergeOne(newsets, sets[j]),
                      IF FirstOverlap(newsets, sets[j]) = 0 THEN Append(at, j) ELSE at)

(* the list sets after a pass: the sets appended to newsets are the very   *)
(* objects of sets, so eachset.update(aset) (line 88) changes them in sets *)
(* as well; the sets merged into another one stay as they were             *)
SharedSets(sets, newsets) ==
    LET at == AppendedFrom(sets, 1, <<>>, <<>>)
    IN  [j \in 1..Len(sets) |->
            IF \E h \in 1..Len(at) : at[h] = j
            THEN newsets[CHOOSE h \in 1..Len(at) : at[h] = j]
            ELSE sets[j]]

\* the while loop (lines 81-91), entered with newsets, sets = sets, []
RECURSIVE MergeWhile(_, _)
MergeWhile(sets, newsets) ==
    IF Len(sets) = Len(newsets) THEN newsets
    ELSE MergeWhile(newsets, MergePass(newsets))

_merge_sets(sets) == MergeWhile(<<>>, sets)

\* ---------------------------------------------------------------- result set
(* results['events'] is a sequence of event records in the enumeration     *)
(* order of the dict.  A record is [ex, W, R]: ex = FALSE is an event      *)
(* whose result is None (line 183); W is the per-band source energy and    *)
(* R[sta] the per-band amplification of station sta.  A station absent     *)
(* from an event's R is kept as a None entry: every loop skips both.       *)
Present(events) == SeqFilter(events, {e \in Range(events) : e.ex})

\* _get_number_of_freqs (lines 48-55): <<"ok", Nf>>, <<"None", 0>> for no event,
\* <<"AssertionError", 0>> when two consecutive events differ in len(W), and
\* <<"TypeError", 0>> at an event that is None (eres['W'], line 51)
RECURSIVE NfFrom(_, _, _)
NfFrom(events, Nf, first) ==
    IF events = <<>> THEN (IF first THEN <<"None", 0>> ELSE <<"ok", Nf>>)
    ELSE IF ~events[1].ex THEN <<"TypeError", 0>>
    ELSE IF ~first /\ Len(events[1].W) # Nf THEN <<"AssertionError", 0>>
    ELSE NfFrom(Tail(events), Len(events[1].W), FALSE)

\* _get_number_of_freqs without its assertion: the last len(W) is returned as
\* long as it is the smallest, the smallest otherwise
NfUnchecked(events) ==
    IF events = <<>> THEN <<"None", 0>>
    ELSE IF \E k \in 1..Len(events) : ~events[k].ex THEN <<"TypeError", 0>>
    ELSE <<"ok", CHOOSE n \in {Len(events[k].W) : k \in 1..Len(events)} :
                    \A k \in 1..Len(events) : n <= Len(events[k].W)>>

_get_number_of_freqs(events) == NfFrom(events, 0, TRUE)

\* ---------------------------------------------------------------- _rescale_results
\* RescaleCell with the source energy multiplied, not divided
RescaleCellMulW(eres, i, f) ==
    IF IsMissing(eres.W[i]) THEN eres
    ELSE [eres EXCEPT
            !.W[i] = Mul(eres.W[i], f),
            !.R = [sta \in DOMAIN eres.R |->
                     IF IsMissing(eres.R[sta][i]) THEN eres.R[sta]
                     ELSE [eres.R[sta] EXCEPT ![i] = Mul(eres.R[sta][i], f)]]]

\* lines 63-72 for one event k and one band i, f = factors[k, i]
RescaleCell(eres, i, f) ==
    IF IsMissing(eres.W[i]) THEN eres
    ELSE [eres EXCEPT
            !.W[i] = Div(eres.W[i], f),
            !.R = [sta \in DOMAIN eres.R |->
                     IF IsMissing(eres.R[sta][i]) THEN eres.R[sta]
                     ELSE [eres.R[sta] EXCEPT ![i] = Mul(eres.R[sta][i], f)]]]

RECURSIVE RescaleBands(_, _, _)
RescaleBands(eres, fk, i) ==
    IF i = 0 THEN eres
    ELSE RescaleCell(RescaleBands(eres, fk, i - 1), i, fk[i])

\* the loops of lines 61-72: factors[k][i] for event k and band i
RescaleAll(events, factors, Nf) ==
    [k \in 1..Len(events) |-> RescaleBands(events[k], factors[k], Nf)]

\* _rescale_results (lines 58-72): the events and the exception raised, if any
_rescale_results(events, factors) ==
    LET nf == _get_number_of_freqs(events)
    IN  IF nf[1] = "ok"
        THEN [outcome |-> "ok", events |-> RescaleAll(events, factors, nf[2])]
        ELSE [outcome |-> IF nf[1] = "None" THEN "TypeError" ELSE nf[1],
              events |-> events]

\* ---------------------------------------------------------------- _find_unconnected_areas
\* the stations of one event with a valid amplification in band freqi (98-99)
ValidStations(eres, freqi) ==
    {sta \in DOMAIN eres.R : ~IsMissing(eres.R[sta][freqi])}

RECURSIVE EventAreas(_, _)
EventAreas(events, freqi) ==
    IF events = <<>> THEN <<>>
    ELSE LET area == ValidStations(events[1], freqi)
         IN  (IF area # {} THEN <<area>> ELSE <<>>)
             \o EventAreas(Tail(events), freqi)

\* lines 94-103: the merged areas in the order of the dict that is returned
\* (the representative name list(a)[0] is used for logging only)
_find_unconnected_areas(events, freqi) == _merge_sets(EventAreas(events, freqi))

\* max(areas, key=len) (line 228): the first area of maximal size
LargestArea(areas) ==
    LET best == CHOOSE j \in 1..Len(areas) :
                    /\ \A h \in 1..Len(areas) :
                          Cardinality(areas[h]) <= Cardinality(areas[j])
                    /\ \A h \in 1..(j - 1) :
                          Cardinality(areas[h]) < Cardinality(areas[j])
    IN  areas[best]

\* ---------------------------------------------------------------- system builder
\* Nstations[i] (lines 195-202): the number of events with a valid
\* amplification of sta in band i, over the stations that have one
NstationsKeys(events, i) ==
    UNION {ValidStations(events[k], i) : k \in 1..Len(events)}

Nstations(events, i, sta) ==
    Cardinality({k \in 1..Len(events) : sta \in ValidStations(events[k], i)})

\* the valid observations <<k, sta>> of band i in the order of the loops of
\* lines 244-249 (events in order, the stations of an event in dict order)
RECURSIVE ObsOfEvent(_, _, _, _)
ObsOfEvent(eres, k, i, stas) ==
    IF stas = <<>> THEN <<>>
    ELSE (IF stas[1] \in ValidStations(eres, i) THEN <<<<k, stas[1]>>>> ELSE <<>>)
         \o ObsOfEvent(eres, k, i, Tail(stas))

RECURSIVE ObsFrom(_, _, _)
ObsFrom(events, k, i) ==
    IF k > Len(events) THEN <<>>
    ELSE ObsOfEvent(events[k], k, i, StationOrder) \o ObsFrom(events, k + 1, i)

\* construct_ols (lines 204-217): the row appended to b and Arepr.  The
\* fields kind, sta and kl record the branch that emitted the row.
OlsRow(coldata, b_val, kind, sta, kl) ==
    [coldata |-> coldata, b |-> b_val, kind |-> kind, sta |-> sta, kl |-> kl]

\* the empty builder state of lines 233-242
Builder0 == [rows |-> <<>>, last |-> <<>>, normA |-> <<>>, normb |-> Zero]

LastKeys(st) == {st.last[j][1] : j \in 1..Len(st.last)}
LastOf(st, sta) ==
    LET j == CHOOSE j \in 1..Len(st.last) : st.last[j][1] = sta IN st.last[j]
SetLast(st, sta, k, Rsta) ==
    IF sta \in LastKeys(st)
    THEN [j \in 1..Len(st.last) |->
            IF st.last[j][1] = sta THEN <<sta, k, Rsta>> ELSE st.last[j]]
    ELSE Append(st.last, <<sta, k, Rsta>>)

\* norm_row_A[k] += fac on a defaultdict(float), keys in insertion order
AddNorm(normA, k, fac) ==
    IF \E j \in 1..Len(normA) : normA[j][1] = k
    THEN [j \in 1..Len(normA) |->
            IF normA[j][1] = k THEN <<k, RAdd(normA[j][2], fac)>> ELSE normA[j]]
    ELSE Append(normA, <<k, fac>>)

\* fac = 1. / Nstations[i][sta] / len(Nstations[i]) (line 255)
NormFac(events, i, sta) ==
    RDiv(RDiv(One, <<Nstations(events, i, sta), 1>>),
         <<Cardinality(NstationsKeys(events, i)), 1>>)

\* lines 252-257: the contribution of one observation to the normalization row
Accumulate(st, events, i, k, sta, Rsta, station) ==
    IF station = "None"
    THEN LET fac == NormFac(events, i, sta)
         IN  [st EXCEPT !.normA = AddNorm(st.normA, k, fac),
                        !.normb = RSub(st.normb, RMul(Log(Rsta), fac))]
    ELSE st

\* Emit with the sign of log(Rsta) in the pin row wrong
EmitPinSign(st, k, sta, Rsta, station, response) ==
    IF sta = station
    THEN [st EXCEPT !.rows = Append(st.rows,
            OlsRow(<<<<k, One>>>>, RAdd(Log(response), Log(Rsta)), "pin", sta, 0))]
    ELSE IF sta \in LastKeys(st)
    THEN LET l == LastOf(st, sta)
         IN  [st EXCEPT
                !.rows = Append(st.rows,
                    OlsRow(<<<<k, One>>, <<l[2], RNeg(One)>>>>,
                           RSub(Log(l[3]), Log(Rsta)), "pair", sta, l[2])),
                !.last = SetLast(st, sta, k, Rsta)]
    ELSE [st EXCEPT !.last = SetLast(st, sta, k, Rsta)]

\* Emit without line 268: a pair row leaves last[sta] at the first observation
EmitKeepFirst(st, k, sta, Rsta, station, response) ==
    IF sta = station
    THEN [st EXCEPT !.rows = Append(st.rows,
            OlsRow(<<<<k, One>>>>, RSub(Log(response), Log(Rsta)), "pin", sta, 0))]
    ELSE IF sta \in LastKeys(st)
    THEN LET l == LastOf(st, sta)
         IN  [st EXCEPT
                !.rows = Append(st.rows,
                    OlsRow(<<<<k, One>>, <<l[2], RNeg(One)>>>>,
                           RSub(Log(l[3]), Log(Rsta)), "pair", sta, l[2]))]
    ELSE [st EXCEPT !.last = SetLast(st, sta, k, Rsta)]

\* lines 258-279 (join_unconnected is None): pin row, pair row or first sight
Emit(st, k, sta, Rsta, station, response) ==
    IF sta = station
    THEN [st EXCEPT !.rows = Append(st.rows,
            OlsRow(<<<<k, One>>>>, RSub(Log(response), Log(Rsta)), "pin", sta, 0))]
    ELSE IF sta \in LastKeys(st)
    THEN LET l == LastOf(st, sta)
         IN  [st EXCEPT
                !.rows = Append(st.rows,
                    OlsRow(<<<<k, One>>, <<l[2], RNeg(One)>>>>,
                           RSub(Log(l[3]), Log(Rsta)), "pair", sta, l[2])),
                !.last = SetLast(st, sta, k, Rsta)]
    ELSE [st EXCEPT !.last = SetLast(st, sta, k, Rsta)]

\* the body of the loops of lines 244-279 for one valid observation
BuildOne(st, events, i, k, sta, largest_area, station, response) ==
    IF sta \notin largest_area THEN st
    ELSE LET Rsta == events[k].R[sta][i]
         IN  Emit(Accumulate(st, events, i, k, sta, Rsta, station),
                  k, sta, Rsta, station, response)

RECURSIVE BuildFrom(_, _, _, _, _, _, _)
BuildFrom(st, obs, events, i, largest_area, station, response) ==
    IF obs = <<>> THEN st
    ELSE BuildFrom(BuildOne(st, events, i, obs[1][1], obs[1][2],
                            largest_area, station, response),
                   Tail(obs), events, i, largest_area, station, response)

\* lines 280-283: the normalization row closes the system when no station is pinned
NormRow(st, station, response) ==
    IF station = "None"
    THEN Append(st.rows,
                OlsRow(st.normA, RAdd(st.normb, Log(response)), "norm", "None", 0))
    ELSE st.rows

\* the rows of the system of band i (lines 233-283)
SystemRows(events, i, largest_area, station, response) ==
    NormRow(BuildFrom(Builder0, ObsFrom(events, 1, i), events, i,
                      largest_area, station, response),
            station, response)

\* ---------------------------------------------------------------- matrix
\* Arow = np.zeros(Ne); Arow[col] = data (lines 213-215): the last entry wins
DenseRow(coldata, Ne) ==
    [c \in 1..Ne |->
        LET hit == {j \in 1..Len(coldata) : coldata[j][1] = c}
        IN  IF hit = {} THEN Zero
            ELSE coldata[CHOOSE j \in hit : \A h \in hit : h <= j][2]]

\* csr_matrix((data, (rows, cols))) (line 289): entries of one cell are summed
SparseRow(coldata, Ne) ==
    [c \in 1..Ne |->
        RSum([j \in 1..Len(coldata) |->
                IF coldata[j][1] = c THEN coldata[j][2] ELSE Zero])]

\* the coefficient matrix A of lines 289 and 296
MatrixA(rows, Ne, use_sparse) ==
    [r \in 1..Len(rows) |->
        IF use_sparse THEN SparseRow(rows[r].coldata, Ne)
        ELSE DenseRow(rows[r].coldata, Ne)]

VectorB(rows) == [r \in 1..Len(rows) |-> rows[r].b]

\* ---------------------------------------------------------------- solver
(* scipy.linalg.lstsq and scipy.sparse.linalg.lsmr (started at x = 0) both *)
(* return the least-squares solution of minimal norm: the solution of the  *)
(* normal equations A'A x = A'b that is orthogonal to the null space of A. *)
(* lsmr's stopping tolerance is not modelled.                              *)
Normal(A, b, n) ==
    [r \in 1..n |->
        [c \in 1..(n + 1) |->
            IF c <= n
            THEN RSum([j \in 1..Len(A) |-> RMul(A[j][r], A[j][c])])
            ELSE RSum([j \in 1..Len(A) |-> RMul(A[j][r], b[j])])]]

\* Gauss-Jordan elimination of the n x (n+1) matrix M from row r, column col;
\* piv[j] is the column of the pivot of row j
RECURSIVE Eliminate(_, _, _, _, _)
Eliminate(M, n, r, col, piv) ==
    IF col > n \/ r > n THEN [M |-> M, piv |-> piv]
    ELSE LET cand == {j \in r..n : M[j][col] # Zero}
         IN  IF cand = {} THEN Eliminate(M, n, r, col + 1, piv)
             ELSE LET p == CHOOSE j \in cand : \A h \in cand : j <= h
                      prow == [c \in 1..(n + 1) |-> RDiv(M[p][c], M[p][col])]
                      swapped == [M EXCEPT ![p] = M[r], ![r] = prow]
                      cleared == [j \in 1..n |->
                                    IF j = r THEN prow
                                    ELSE [c \in 1..(n + 1) |->
                                            RSub(swapped[j][c],
                                                 RMul(swapped[j][col], prow[c]))]]
                  IN  Eliminate(cleared, n, r + 1, col + 1, Append(piv, col))

\* x - (x.z / z.z) z
Reject(x, z) ==
    LET t == RDiv(Dot(x, z), Dot(z, z))
    IN  [c \in 1..Len(x) |-> RSub(x[c], RMul(t, z[c]))]

RECURSIVE RejectAll(_, _)
RejectAll(x, basis) ==
    IF basis = <<>> THEN x ELSE RejectAll(Reject(x, basis[1]), Tail(basis))

\* Gram-Schmidt: an orthogonal basis of the span of vs
RECURSIVE Orthogonal(_, _)
Orthogonal(vs, done) ==
    IF vs = <<>> THEN done
    ELSE Orthogonal(Tail(vs), Append(done, RejectAll(vs[1], done)))

\* the solution read off the eliminated system e: the particular solution
\* with zero free unknowns, made orthogonal to the null space
MinNorm(e, n, pivcols, free) ==
    LET rowOf(c) == CHOOSE j \in 1..Len(e.piv) : e.piv[j] = c
    IN  RejectAll([c \in 1..n |-> IF c \in pivcols THEN e.M[rowOf(c)][n + 1] ELSE Zero],
                  Orthogonal([f \in 1..Len(free) |->
                                [c \in 1..n |->
                                    IF c = free[f] THEN One
                                    ELSE IF c \in pivcols
                                         THEN RNeg(e.M[rowOf(c)][free[f]])
                                         ELSE Zero]],
                             <<>>))

Solution(e, n) ==
    MinNorm(e, n, Range(e.piv), SeqFilter([c \in 1..n |-> c], (1..n) \ Range(e.piv)))

\* res[0] of lines 294 and 297 for a system with at least one row
LeastSquares(A, b, n) == Solution(Eliminate(Normal(A, b, n), n, 1, 1, <<>>), n)

\* the residual A x - b of a solution
Residual(A, b, x) == [r \in 1..Len(A) |-> RSub(Dot(A[r], x), b[r])]

\* ---------------------------------------------------------------- align_site_responses
\* lines 233-297 of one band: the system of the selected area and its
\* solution.  zeros tells what the sparse solver makes of a system without
\* rows: a zero solution or an error.
BandOfRows(Ne, use_sparse, zeros, areas, largest_area, rows) ==
    IF rows = <<>>
    THEN IF use_sparse /\ zeros
         THEN [status |-> "ok", areas |-> areas, largest |-> largest_area,
               rows |-> rows, x |-> [c \in 1..Ne |-> Zero]]
         ELSE \* lstsq of an array that is not 2-D (line 297)
              [status |-> "ValueError", areas |-> areas, largest |-> largest_area,
               rows |-> rows, x |-> <<>>]
    ELSE [status |-> "ok", areas |-> areas, largest |-> largest_area,
          rows |-> rows,
          x |-> LeastSquares(MatrixA(rows, Ne, use_sparse), VectorB(rows), Ne)]

BandOfArea(events, i, station, response, use_sparse, zeros, areas, largest_area) ==
    BandOfRows(Len(events), use_sparse, zeros, areas, largest_area,
               SystemRows(events, i, largest_area, station, response))

\* lines 228-231: max() of an empty dict raises
BandOfAreas(events, i, station, response, use_sparse, zeros, areas) ==
    IF areas = <<>>
    THEN [status |-> "ValueError", areas |-> areas, largest |-> {},
          rows |-> <<>>, x |-> <<>>]
    ELSE BandOfArea(events, i, station, response, use_sparse, zeros, areas,
                    LargestArea(areas))

\* one iteration of the loop over bands (lines 221-298)
AlignBand(events, i, station, response, use_sparse, zeros) ==
    BandOfAreas(events, i, station, response, use_sparse, zeros,
                _find_unconnected_areas(events, i))

\* the loop over bands, stopped by the first band that raises
RECURSIVE AlignBands(_, _, _, _, _, _, _)
BandsAfter(band, events, i, Nf, station, response, use_sparse, zeros) ==
    IF band.status # "ok" THEN <<band>>
    ELSE <<band>> \o AlignBands(events, i + 1, Nf, station, response,
                                use_sparse, zeros)

AlignBands(events, i, Nf, station, response, use_sparse, zeros) ==
    IF i > Nf THEN <<>>
    ELSE BandsAfter(AlignBand(events, i, station, response, use_sparse, zeros),
                    events, i, Nf, station, response, use_sparse, zeros)

\* factors[:, i] = np.exp(res[0]) (line 298)
Factors(bands, Ne) == [k \in 1..Ne |-> [i \in 1..Len(bands) |-> Exp(bands[i].x[k])]]

\* lines 189-191 left out
KeepSparse(Ne, use_sparse) == use_sparse

\* use_sparse after lines 189-191
ForceDense(Ne, use_sparse) == IF Ne = 1 THEN FALSE ELSE use_sparse

\* the call ends in the exception err
Raised(err, events, sparse, bands) ==
    [outcome |-> err, events |-> events, use_sparse |-> sparse,
     bands |-> bands, factors |-> <<>>]

\* lines 300-305; calculate_source_properties (line 302) reads W and leaves
\* W and R alone
AlignRescaled(events, sparse, bands, factors) ==
    [outcome |-> "ok", events |-> _rescale_results(events, factors).events,
     use_sparse |-> sparse, bands |-> bands, factors |-> factors]

AlignSolved(events, sparse, bands) ==
    IF \E i \in 1..Len(bands) : bands[i].status # "ok"
    THEN Raised("ValueError", events, sparse, bands)
    ELSE AlignRescaled(events, sparse, bands, Factors(bands, Len(events)))

\* lines 193-298
AlignCounted(events, sparse, nf, station, response, zeros) ==
    IF nf[1] = "AssertionError" THEN Raised("AssertionError", events, sparse, <<>>)
    ELSE IF nf[1] # "ok"   \* range(None), line 195
         THEN Raised("TypeError", events, sparse, <<>>)
         ELSE AlignSolved(events, sparse,
                          AlignBands(events, 1, nf[2], station, response, sparse, zeros))

\* lines 189-193
AlignPresent(events, station, response, use_sparse0, zeros) ==
    AlignCounted(events, ForceDense(Len(events), use_sparse0),
                 _get_number_of_freqs(events), station, response, zeros)

\* align_site_responses (lines 167-305) on the events of results['events']
Align(events0, station, response, use_sparse0, zeros) ==
    AlignPresent(Present(events0), station, response, use_sparse0, zeros)

\* ---------------------------------------------------------------- input families
\* the subsets of S with at most k elements
RECURSIVE KSubsets(_, _)
KSubsets(S, k) ==
    IF k = 0 \/ S = {} THEN {{}}
    ELSE LET x == CHOOSE y \in S : TRUE
         IN  KSubsets(S \ {x}, k) \cup {T \cup {x} : T \in KSubsets(S \ {x}, k - 1)}

Exps == {Num(<<n, 1>>) : n \in 0..MaxExp}

\* the entries of a result set whose event k has lens[k] bands: <<k, sta, i>>
\* of R, <<k, "W", i>> of W, and <<k, "ex", 1>> for the event record itself
Slots(lens) ==
    {t \in (1..Len(lens)) \X (Stations \cup {"W"}) \X (1..MaxFreqs) :
        t[3] <= lens[t[1]]}
    \cup {<<k, "ex", 1>> : k \in 1..Len(lens)}

\* what an entry that departs from the default may hold
MarkValues(slot) ==
    IF slot[2] = "ex" THEN {FALSE}
    ELSE IF slot[2] = "W" THEN {None, NaN}
    ELSE {NaN} \cup Exps

\* the assignments of a value to every slot of S
RECURSIVE MarkSets(_)
MarkSets(S) ==
    IF S = {} THEN {<<>>}
    ELSE LET x == CHOOSE y \in S : TRUE
         IN  {m @@ (x :> v) : m \in MarkSets(S \ {x}), v \in MarkValues(x)}

\* the result set whose events exist and hold no amplification (None) and unit
\* source energy, but for the entries of marks
MkResults(lens, marks) ==
    [k \in 1..Len(lens) |->
        [ex |-> <<k, "ex", 1>> \notin DOMAIN marks,
         W  |-> [i \in 1..lens[k] |->
                   IF <<k, "W", i>> \in DOMAIN marks THEN marks[<<k, "W", i>>]
                   ELSE Num(Zero)],
         R  |-> [sta \in Stations |->
                   [i \in 1..lens[k] |->
                      IF <<k, sta, i>> \in DOMAIN marks THEN marks[<<k, sta, i>>]
                      ELSE None]]]]

\* the result sets of the given band counts with at most budget such entries
ResultSets(lens, budget) ==
    {MkResults(lens, marks) :
        marks \in UNION {MarkSets(S) : S \in KSubsets(Slots(lens), budget)}}

\* ---------------------------------------------------------------- state
VARIABLES
    op,          \* the function that is called
    results,     \* results['events'], the events in enumeration order
    results0,    \* the result set as the caller passed it
    station,     \* the pinned station, "None" for none
    response,    \* the reference response
    sparse_arg,  \* the use_sparse argument of the caller
    use_sparse,  \* the local use_sparse of align_site_responses
    factors,     \* the factor matrix, factors[k][i]
    bands,       \* per band: areas, largest area, rows and solution
    outcome,     \* "call", then "ok" or the exception raised
    pc,          \* the place of _find_unconnected_areas and _merge_sets
    sets,        \* the local sets of _merge_sets
    newsets,     \* the local newsets of _merge_sets
    areas,       \* the dict of areas, a sequence of <<name, stations>>
    areas0,      \* the areas as passed to _join_unconnected_areas
    max_distance,  \* the max_distance of _join_unconnected_areas
    hulls,       \* hulls[name]: the stations on the hull of an area
    distance,    \* distance[{a1, a2}] = <<dist, <<sta1, sta2>>>>
    near_stations  \* the bridge map

alignVars == <<station, response, sparse_arg, use_sparse, factors, bands>>
mergeVars == <<sets, newsets>>
joinVars == <<areas0, max_distance, hulls, distance, near_stations>>
vars == <<op, results, results0, outcome, pc, areas, alignVars, mergeVars, joinVars>>

\* no call of _join_unconnected_areas is under way
NoJoin ==
    /\ areas0 = <<>> /\ max_distance = 0
    /\ hulls = <<>> /\ distance = <<>> /\ near_stations = <<>>

\* no call of _find_unconnected_areas is under way
NoMerge == pc = "idle" /\ sets = <<>> /\ newsets = <<>> /\ areas = <<>> /\ NoJoin

PinChoices == {"None", "A"}

\* the factors 1/2 and 2
FactorValues == {Num(<<-1, 1>>), Num(<<1, 1>>)}

\* result sets of any band counts with up to budget entries
RescaleInputs(budget) ==
    UNION {UNION {ResultSets(lens, budget) :
                     lens \in [1..Ne -> 1..MaxFreqs]} : Ne \in 1..MaxEvents}

\* result sets of one band with up to budget entries, and result sets of any
\* band counts with up to budget - 2 entries
AlignInputs(budget) ==
    UNION {ResultSets([k \in 1..Ne |-> 1], budget) : Ne \in 1..MaxEvents}
    \cup RescaleInputs(budget - 2)

\* a call of align_site_responses(results, station, response, use_sparse)
InitAlign ==
    /\ op = "align_site_responses"
    /\ results \in AlignInputs(MaxObs)
    /\ station \in PinChoices
    /\ response \in Exps
    /\ use_sparse \in BOOLEAN
    /\ factors = <<>>

\* a call of _rescale_results(results, factors)
InitRescale ==
    /\ op = "_rescale_results"
    /\ results \in RescaleInputs(MaxObs - 2)
    /\ factors \in [1..Len(results) -> [1..MaxFreqs -> FactorValues]]
    /\ station = "None"
    /\ response = Num(Zero)
    /\ use_sparse = TRUE

Init ==
    /\ InitAlign \/ InitRescale
    /\ NoMerge
    /\ results0 = results
    /\ sparse_arg = use_sparse
    /\ bands = <<>>
    /\ outcome = "call"

\* calls of align_site_responses on result sets of one band and up to
\* MaxShapeEvents events, in which every amplification of the stations of
\* ShapeStations is None or a value, and every source energy is valid
ShapeInputs(Ne) ==
    {MkResults([k \in 1..Ne |-> 1], marks) :
        marks \in UNION {{m \in MarkSets(S) : \A slot \in S : m[slot] # NaN} :
                    S \in SUBSET {<<k, sta, 1>> : k \in 1..Ne, sta \in ShapeStations}}}

InitShape ==
    /\ op = "align_site_responses"
    /\ \E Ne \in 1..MaxShapeEvents : results \in ShapeInputs(Ne)
    /\ station \in PinChoices
    /\ response \in Exps
    /\ use_sparse \in BOOLEAN
    /\ factors = <<>>
    /\ NoMerge
    /\ results0 = results
    /\ sparse_arg = use_sparse
    /\ bands = <<>>
    /\ outcome = "call"

\* the outcomes of the call: with a sparse system without rows, both answers
\* of the sparse solver
OutcomesBeside(a) ==
    IF a.use_sparse /\ \E i \in 1..Len(a.bands) : a.bands[i].rows = <<>>
    THEN {a, Align(results, station, response, use_sparse, FALSE)}
    ELSE {a}

AlignOutcomes == OutcomesBeside(Align(results, station, response, use_sparse, TRUE))

AlignSiteResponses ==
    /\ op = "align_site_responses"
    /\ outcome = "call"
    /\ \E a \in AlignOutcomes :
         /\ results' = a.events
         /\ use_sparse' = a.use_sparse
         /\ factors' = a.factors
         /\ bands' = a.bands
         /\ outcome' = a.outcome
    /\ UNCHANGED <<op, results0, station, response, sparse_arg>>
    /\ UNCHANGED <<pc, areas, mergeVars, joinVars>>

RescaleResults ==
    /\ op = "_rescale_results"
    /\ outcome = "call"
    /\ LET r == _rescale_results(results, factors)
       IN  /\ results' = r.events
           /\ outcome' = r.outcome
    /\ UNCHANGED <<op, results0, alignVars, pc, areas, mergeVars, joinVars>>

Next == AlignSiteResponses \/ RescaleResults

Spec == Init /\ [][Next]_vars

\* the calls on up to MaxShapeEvents events and the calls of Spec
InitWide == InitShape \/ Init

SpecShape == InitWide /\ [][Next]_vars

\* calls of align_site_responses with station A pinned, on result sets whose
\* source energies are all valid
InitPin ==
    /\ InitAlign
    /\ NoMerge
    /\ station = "A"
    /\ \A k \in 1..Len(results) : \A i \in 1..Len(results[k].W) :
          ~IsMissing(results[k].W[i])
    /\ results0 = results
    /\ sparse_arg = use_sparse
    /\ bands = <<>>
    /\ outcome = "call"

NextPin == AlignSiteResponses

SpecPin == InitPin /\ [][NextPin]_vars

\* ---------------------------------------------------------------- properties
\* the events the call works on, as they were before it (line 182)
Events0 == Present(results0)
Aligned == op = "align_site_responses" /\ outcome = "ok"
Cells == {<<k, i>> \in (1..Len(results)) \X (1..MaxFreqs) : i <= Len(results[k].W)}

(* C1. Scale consistency: after align_site_responses or _rescale_results,  *)
(* wherever the source energy and an amplification of an event and band    *)
(* were both valid before the call, the energy was divided and the         *)
(* amplification multiplied by the factor of that event and band, and      *)
(* their product is what it was.                                           *)
ScaleConsistency ==
    outcome = "ok" =>
        \A c \in Cells : \A sta \in Stations :
            LET k == c[1]
                i == c[2]
                W0 == Events0[k].W[i]
                R0 == Events0[k].R[sta][i]
                W1 == results[k].W[i]
                R1 == results[k].R[sta][i]
            IN  (~IsMissing(W0) /\ ~IsMissing(R0)) =>
                    /\ W1 = Div(W0, factors[k][i])
                    /\ R1 = Mul(R0, factors[k][i])
                    /\ Mul(W1, R1) = Mul(W0, R0)

\* C1 witness: an aligned result set with a cell rescaled by a factor other than 1
ScaleConsistencyWitness ==
    /\ Aligned
    /\ \E c \in Cells : \E sta \in Stations :
          /\ ~IsMissing(Events0[c[1]].W[c[2]])
          /\ ~IsMissing(Events0[c[1]].R[sta][c[2]])
          /\ factors[c[1]][c[2]] # Num(Zero)
          /\ results[c[1]].R[sta][c[2]] # Events0[c[1]].R[sta][c[2]]

(* C8. Rescaler coverage: _rescale_results multiplies every valid          *)
(* amplification by the factor of its event and band and divides every     *)
(* valid source energy by it, each independently of the other, and leaves  *)
(* every missing entry as it is.                                           *)
RescalerCoverage ==
    (op = "_rescale_results" /\ outcome = "ok") =>
        \A c \in Cells : \A sta \in Stations :
            LET k == c[1]
                i == c[2]
                W0 == results0[k].W[i]
                R0 == results0[k].R[sta][i]
            IN  /\ results[k].W[i] =
                     IF IsMissing(W0) THEN W0 ELSE Div(W0, factors[k][i])
                /\ results[k].R[sta][i] =
                     IF IsMissing(R0) THEN R0 ELSE Mul(R0, factors[k][i])

(* C6. Inconsistent band counts are fatal: when two events differ in the   *)
(* length of W, align_site_responses fails with an assertion error and no  *)
(* source energy or amplification has been modified.                       *)
BandCountsDiffer ==
    \E j, k \in 1..Len(Events0) : Len(Events0[j].W) # Len(Events0[k].W)

BandCountFatal ==
    (op = "align_site_responses" /\ outcome # "call" /\ BandCountsDiffer) =>
        /\ outcome = "AssertionError"
        /\ results = Events0
        /\ factors = <<>>

\* C6 witness: the call has failed on events of different band counts
BandCountFatalWitness ==
    /\ op = "align_site_responses"
    /\ outcome = "AssertionError"
    /\ BandCountsDiffer
    /\ \E k \in 1..Len(Events0) : \E sta \in Stations :
          ~IsMissing(Events0[k].R[sta][1])

(* C5. Missing data is never an error: on a result set with at least one   *)
(* event and consistent band counts, align_site_responses completes        *)
(* whatever entries are None or NaN.                                       *)
MissingNeverFatal ==
    (/\ op = "align_site_responses"
     /\ outcome # "call"
     /\ Events0 # <<>>
     /\ ~BandCountsDiffer) => outcome = "ok"

(* C10. Normalization weights: when no station is pinned, the coefficients *)
(* of the normalization row of every band sum to 1.                        *)
NormRows(band) == {r \in 1..Len(band.rows) : band.rows[r].kind = "norm"}

NormalizationWeights ==
    (op = "align_site_responses" /\ station = "None") =>
        \A i \in 1..Len(bands) : \A r \in NormRows(bands[i]) :
            RSum(MatrixA(bands[i].rows, Len(results), use_sparse)[r]) = One

(* C3. Single-event shortcut, as stated: with exactly one event the solver *)
(* is forced to dense mode and the factor of that event is 1 at every band.*)
SingleEventUnitFactor ==
    (Aligned /\ Len(Events0) = 1) =>
        /\ use_sparse = FALSE
        /\ \A i \in 1..Len(results[1].W) : factors[1][i] = Num(Zero)

\* the sum of the logarithms of the valid amplifications of band i of an event
SumLog(eres, i) ==
    RSum([j \in 1..Len(StationOrder) |->
            IF StationOrder[j] \in ValidStations(eres, i)
            THEN Log(eres.R[StationOrder[j]][i]) ELSE Zero])

(* C3, amended. With exactly one event the solver is forced to dense mode, *)
(* and the factor of that event at a band is the reference response        *)
(* divided by the amplification of the pinned station or, when no station  *)
(* is pinned, by the geometric mean of the valid amplifications of that    *)
(* band.                                                                   *)
SingleEventFactor ==
    (op = "align_site_responses" /\ outcome # "call" /\ Len(Events0) = 1) =>
        /\ use_sparse = FALSE
        /\ outcome = "ok" =>
             \A i \in 1..Len(results[1].W) :
                LET valid == ValidStations(Events0[1], i)
                IN  /\ valid # {}
                    /\ station # "None" => station \in valid
                    /\ factors[1][i] =
                         IF station # "None"
                         THEN Div(response, Events0[1].R[station][i])
                         ELSE Exp(RSub(Log(response),
                                       RDiv(SumLog(Events0[1], i),
                                            <<Cardinality(valid), 1>>)))

\* C3 witness: a single event, sparse mode asked for, aligned by a factor
\* other than 1 with no station pinned and two stations observed
SingleEventWitness ==
    /\ Aligned
    /\ Len(Events0) = 1
    /\ sparse_arg = TRUE
    /\ station = "None"
    /\ Cardinality(ValidStations(Events0[1], 1)) >= 2
    /\ factors[1][1] # Num(Zero)

\* the events that hold a valid observation of sta in band i
Observers(sta, i) ==
    {k \in 1..Len(Events0) : sta \in ValidStations(Events0[k], i)}

(* C2. Pinning, as stated: with station = S and response = r, in every     *)
(* band in which S lies in the selected area the rescaled amplification of *)
(* S is r in every event that observes S.                                  *)
PinnedResponse ==
    (Aligned /\ station # "None") =>
        \A i \in 1..Len(bands) :
            station \in bands[i].largest =>
                \A k \in Observers(station, i) :
                    results[k].R[station][i] = response

\* the system of a band has an exact solution
Consistent(band) ==
    LET A == MatrixA(band.rows, Len(results), use_sparse)
    IN  \A r \in 1..Len(band.rows) :
            Residual(A, VectorB(band.rows), band.x)[r] = Zero

(* C2, amended. With station = S and response = r, in every band in which  *)
(* S lies in the selected area and the observations admit an exact         *)
(* alignment (the least-squares residual is zero), the factor of every     *)
(* event that observes S, times the amplification of S before the call,    *)
(* is r.                                                                   *)
PinnedFactor ==
    (Aligned /\ station # "None") =>
        \A i \in 1..Len(bands) :
            (station \in bands[i].largest /\ Consistent(bands[i])) =>
                \A k \in Observers(station, i) :
                    Mul(Events0[k].R[station][i], factors[k][i]) = response

\* C2 witness: the pinned station observed by two events with different
\* amplifications, another station tying the two events, an exact solution
PinnedFactorWitness ==
    /\ Aligned
    /\ station # "None"
    /\ Len(bands) >= 1
    /\ station \in bands[1].largest
    /\ Consistent(bands[1])
    /\ Cardinality(Observers(station, 1)) >= 2
    /\ \E r \in 1..Len(bands[1].rows) : bands[1].rows[r].kind = "pair"
    /\ \E k \in Observers(station, 1) : Events0[k].R[station][1] # response
    /\ \A k \in Observers(station, 1) : results[k].R[station][1] = response

\* ---- the shape of the rows of a band
RowsOfKind(band, kind) == {r \in 1..Len(band.rows) : band.rows[r].kind = kind}

\* row r of band i holds 1 in column k, -1 in column kl (if any), 0 elsewhere
RowIs(i, r, k, kl) ==
    LET Arow == MatrixA(bands[i].rows, Len(results), use_sparse)[r]
    IN  \A c \in 1..Len(results) :
            Arow[c] = IF c = k THEN One ELSE IF c = kl THEN RNeg(One) ELSE Zero

\* row r of band i is a pair row of a station of the selected area, between
\* the current event and the earlier event that last observed the station
PairRowOk(i, r) ==
    LET row == bands[i].rows[r]
        k == row.coldata[1][1]
        kl == row.kl
    IN  /\ row.sta \in bands[i].largest
        /\ row.sta # station
        /\ kl < k
        /\ RowIs(i, r, k, kl)
        /\ {kl, k} \subseteq Observers(row.sta, i)
        /\ \A m \in Observers(row.sta, i) : ~(kl < m /\ m < k)
        /\ row.b = RSub(Log(Events0[kl].R[row.sta][i]), Log(Events0[k].R[row.sta][i]))

(* C9. System shape, as stated: with or without a pinned station the       *)
(* system of every band holds exactly one normalization row (a pin row or  *)
(* the geometric-mean row), and every other row is a pair row.             *)
OneNormalizationRow ==
    op = "align_site_responses" =>
        \A i \in 1..Len(bands) :
            bands[i].areas # <<>> =>
                /\ Cardinality(RowsOfKind(bands[i], "pin")
                               \cup RowsOfKind(bands[i], "norm")) = 1
                /\ \A r \in RowsOfKind(bands[i], "pair") : PairRowOk(i, r)

(* C9, amended. Without a pinned station the system of every band holds    *)
(* exactly one normalization row, the geometric-mean row, which is its     *)
(* last row.  With a pinned station S it holds no such row but one pin row *)
(* (coefficient 1 in the column of the event) for every event that         *)
(* observes S when S lies in the selected area, and none otherwise.  Every *)
(* other row is a pair row of one station of the selected area, with 1 in  *)
(* the column of the current event and -1 in the column of the strictly    *)
(* earlier event that last observed that station.                          *)
SystemShape ==
    op = "align_site_responses" =>
        \A i \in 1..Len(bands) :
            bands[i].areas # <<>> =>
                LET band == bands[i]
                    pins == RowsOfKind(band, "pin")
                    norms == RowsOfKind(band, "norm")
                IN  /\ station = "None" =>
                          /\ pins = {}
                          /\ norms = {Len(band.rows)}
                    /\ station # "None" =>
                          /\ norms = {}
                          /\ {band.rows[r].coldata[1][1] : r \in pins} =
                                IF station \in band.largest
                                THEN Observers(station, i) ELSE {}
                          /\ Cardinality(pins) =
                                IF station \in band.largest
                                THEN Cardinality(Observers(station, i)) ELSE 0
                          /\ \A r \in pins :
                                RowIs(i, r, band.rows[r].coldata[1][1], 0)
                    /\ \A r \in RowsOfKind(band, "pair") : PairRowOk(i, r)

\* C9 witness: a pinned station with two pin rows, beside a station observed
\* by three events whose pair rows tie the second event to the first and the
\* third to the second
SystemShapeWitness ==
    /\ Aligned
    /\ station # "None"
    /\ Len(results) = 3
    /\ Len(bands) >= 1
    /\ Cardinality(RowsOfKind(bands[1], "pin")) = 2
    /\ \E sta \in Stations :
          /\ Observers(sta, 1) = {1, 2, 3}
          /\ \E r, q \in RowsOfKind(bands[1], "pair") :
                /\ bands[1].rows[r].sta = sta /\ bands[1].rows[q].sta = sta
                /\ bands[1].rows[r].coldata[1][1] = 2 /\ bands[1].rows[r].kl = 1
                /\ bands[1].rows[q].coldata[1][1] = 3 /\ bands[1].rows[q].kl = 2

\* ---------------------------------------------------------------- areas, step by step
MaxSets == 3
AreaStations == {"A", "B", "C", "D", "E"}

\* one event of one band in which exactly the stations of valid hold an
\* amplification, the others the missing value miss
AreaEvent(valid, miss) ==
    [ex |-> TRUE, W |-> <<Num(Zero)>>,
     R |-> [sta \in AreaStations |-> IF sta \in valid THEN <<Num(Zero)>> ELSE <<miss>>]]

\* a call of _find_unconnected_areas(results, 0): up to MaxSets events, each
\* observing at most two stations
InitMerge ==
    /\ op = "_find_unconnected_areas"
    /\ \E Ne \in 1..MaxSets : \E miss \in {None, NaN} :
         \E valid \in [1..Ne -> {S \in SUBSET AreaStations : Cardinality(S) <= 2}] :
            results = [k \in 1..Ne |-> AreaEvent(valid[k], miss)]
    /\ results0 = results
    /\ outcome = "call"
    /\ station = "None" /\ response = Num(Zero)
    /\ sparse_arg = TRUE /\ use_sparse = TRUE
    /\ factors = <<>> /\ bands = <<>>
    /\ pc = "collect" /\ sets = <<>> /\ newsets = <<>> /\ areas = <<>>
    /\ NoJoin

\* lines 95-101, the call of line 102 and line 81
CollectAreas ==
    /\ pc = "collect"
    /\ newsets' = EventAreas(results, 1)
    /\ sets' = <<>>
    /\ pc' = "while"
    /\ UNCHANGED <<op, results, results0, outcome, alignVars, areas, joinVars>>

\* one iteration of the while loop of _merge_sets (lines 82-90)
MergeIteration ==
    /\ pc = "while"
    /\ Len(sets) # Len(newsets)
    /\ newsets' = MergePass(newsets)
    /\ sets' = SharedSets(newsets, newsets')
    /\ UNCHANGED <<op, results, results0, outcome, alignVars, pc, areas, joinVars>>

\* line 91 and line 103: each area under the name of one of its stations
ReturnAreas ==
    /\ pc = "while"
    /\ Len(sets) = Len(newsets)
    /\ \E name \in [1..Len(newsets) -> AreaStations] :
         /\ \A j \in 1..Len(newsets) : name[j] \in newsets[j]
         /\ areas' = [j \in 1..Len(newsets) |-> <<name[j], newsets[j]>>]
    /\ pc' = "done"
    /\ outcome' = "ok"
    /\ UNCHANGED <<op, results, results0, alignVars, sets, newsets, joinVars>>

NextMerge == CollectAreas \/ MergeIteration \/ ReturnAreas

\* the function runs to its end: a single thread, every step taken
SpecMerge == InitMerge /\ [][NextMerge]_vars /\ WF_vars(NextMerge)

\* the stations linked to those of S by a chain of overlapping input sets
RECURSIVE Linked(_, _)
Linked(S, inputs) ==
    LET T == S \cup UNION {x \in Range(inputs) : x \cap S # {}}
    IN  IF T = S THEN S ELSE Linked(T, inputs)

InputSets == EventAreas(results, 1)

\* the areas returned are the components of the input sets
AreasAreComponents ==
    pc = "done" =>
        /\ \A j, h \in 1..Len(areas) : j # h => areas[j][2] \cap areas[h][2] = {}
        /\ \A j \in 1..Len(areas) : areas[j][2] # {} /\ areas[j][1] \in areas[j][2]
        /\ UNION {areas[j][2] : j \in 1..Len(areas)} = UnionAll(InputSets)
        /\ UnionAll(InputSets) =
             {sta \in AreaStations : \E k \in 1..Len(results) :
                                        ~IsMissing(results[k].R[sta][1])}
        /\ {areas[j][2] : j \in 1..Len(areas)} =
             {Linked({sta}, InputSets) : sta \in UnionAll(InputSets)}
        /\ \A j \in 1..Len(areas) : areas[j][2] = newsets[j]

(* C4. Connectivity correctness: _merge_sets terminates, and the areas     *)
(* returned by _find_unconnected_areas are pairwise disjoint, cover        *)
(* exactly the stations with a valid amplification, and hold two stations  *)
(* together if and only if a chain of overlapping input sets links them.   *)
ConnectivityCorrectness == []AreasAreComponents /\ <>(pc = "done")

\* C4 witness: {A,B}, {B,C}, {D,E} has given {A,B,C} and {D,E}
ConnectivityWitness ==
    /\ pc = "done"
    /\ InputSets = <<{"A", "B"}, {"B", "C"}, {"D", "E"}>>
    /\ {areas[j][2] : j \in 1..Len(areas)} = {{"A", "B", "C"}, {"D", "E"}}

\* ---------------------------------------------------------------- _join_unconnected_areas
MaxAreas == 3
JoinStations == {"A", "B", "C", "D", "E", "F", "G"}
\* the order of station names as Python compares strings
JoinOrder == <<"A", "B", "C", "D", "E", "F", "G">>
Rank(sta) == CHOOSE j \in 1..Len(JoinOrder) : JoinOrder[j] = sta
Thresholds == {0, 4, 5, 10, 40}

\* _collect_station_coordinates (lines 36-45) of the inventory: (lat, lon) of
\* every station.  D lies inside the triangle A, B, C.
Coordinates ==
    [sta \in JoinStations |->
        CASE sta = "A" -> <<0, 0>>
          [] sta = "B" -> <<6, 0>>
          [] sta = "C" -> <<3, 4>>
          [] sta = "D" -> <<3, 1>>
          [] sta = "E" -> <<3, -1>>
          [] sta = "F" -> <<2, -3>>
          [] sta = "G" -> <<4, -3>>]

(* gps2dist_azimuth(...)[0] / 1e3 (lines 135, 138).  The code only compares *)
(* distances with each other and with max_distance, so the geodetic         *)
(* distance is kept by an order-preserving stand-in, the squared planar     *)
(* distance, and max_distance is taken in the same unit.                    *)
Dist(sta1, sta2) ==
    LET p == Coordinates[sta1]
        q == Coordinates[sta2]
    IN  (p[1] - q[1]) * (p[1] - q[1]) + (p[2] - q[2]) * (p[2] - q[2])

Cross(o, a, b) == (a[1] - o[1]) * (b[2] - o[2]) - (a[2] - o[2]) * (b[1] - o[1])

OnSegment(p, a, b) ==
    /\ Cross(a, b, p) = 0
    /\ (p[1] - a[1]) * (p[1] - b[1]) + (p[2] - a[2]) * (p[2] - b[2]) <= 0

InTriangle(p, a, b, c) ==
    LET d1 == Cross(a, b, p)
        d2 == Cross(b, c, p)
        d3 == Cross(c, a, p)
    IN  /\ Cross(a, b, c) # 0
        /\ ~((d1 < 0 \/ d2 < 0 \/ d3 < 0) /\ (d1 > 0 \/ d2 > 0 \/ d3 > 0))

\* scipy.spatial.ConvexHull (line 121) raises QhullError on fewer than three
\* points and on points of one line
Degenerate(stas) ==
    \/ Cardinality(stas) < 3
    \/ \A a, b, c \in stas : Cross(Coordinates[a], Coordinates[b], Coordinates[c]) = 0

\* lines 120-123: the stations at the vertices of the convex hull of an area
HullOf(stas) ==
    {s \in stas :
        LET p == Coordinates[s]
            rest == {Coordinates[t] : t \in stas \ {s}}
        IN  /\ ~\E a, b \in rest : OnSegment(p, a, b)
            /\ ~\E a, b, c \in rest : InTriangle(p, a, b, c)}

AreaNames(as) == {as[j][1] : j \in 1..Len(as)}
AreaOf(as, name) == as[CHOOSE j \in 1..Len(as) : as[j][1] = name][2]

\* the pairs (a1, a2) of the loops of lines 126-130 that get an entry: a1
\* comes before a2 in the dict
AreaPairs(as) == {<<as[j][1], as[h][1]>> : j, h \in 1..Len(as)}
                    \cap {<<as[j][1], as[h][1]>> : j \in 1..Len(as), h \in 2..Len(as)}
                    \cap {t \in AreaNames(as) \X AreaNames(as) :
                            \E j, h \in 1..Len(as) :
                               j < h /\ as[j][1] = t[1] /\ as[h][1] = t[2]}

\* lines 131-137: the station pairs of minimal distance between two hulls;
\* min() returns the first of them in the iteration order of the two sets
ClosestPairs(h1, h2) ==
    {t \in h1 \X h2 : \A u \in h1 \X h2 : Dist(t[1], t[2]) <= Dist(u[1], u[2])}

\* the possible contents of the dict distance after lines 125-138
RECURSIVE Distances(_, _)
Distances(pairs, hs) ==
    IF pairs = {} THEN {<<>>}
    ELSE LET t == CHOOSE u \in pairs : TRUE
         IN  {d @@ ({t[1], t[2]} :> <<Dist(m[1], m[2]), m>>) :
                d \in Distances(pairs \ {t}, hs),
                m \in ClosestPairs(hs[t[1]], hs[t[2]])}

\* the order of the values of distance: (dist, (sta1, sta2)) as tuples
ValueLess(v, w) ==
    \/ v[1] < w[1]
    \/ v[1] = w[1] /\ Rank(v[2][1]) < Rank(w[2][1])
    \/ v[1] = w[1] /\ v[2][1] = w[2][1] /\ Rank(v[2][2]) < Rank(w[2][2])

\* min(distance, key=distance.get) (line 142)
NearestPair(dist) ==
    CHOOSE p \in DOMAIN dist :
        \A q \in DOMAIN dist : q = p \/ ValueLess(dist[p], dist[q])

\* the areas that may be passed: n disjoint sets of stations, each under the
\* name of its first station
RECURSIVE LeastOf(_, _)
LeastOf(stas, j) == IF JoinOrder[j] \in stas THEN JoinOrder[j] ELSE LeastOf(stas, j + 1)

AreaDicts(n) ==
    {[j \in 1..n |-> LET stas == {sta \in JoinStations : f[sta] = j}
                     IN  <<LeastOf(stas, 1), stas>>] :
       f \in {g \in [JoinStations -> 0..n] :
                \A j \in 1..n : \E sta \in JoinStations : g[sta] = j}}

InitJoin ==
    /\ op = "_join_unconnected_areas"
    /\ \E n \in 2..MaxAreas : areas \in AreaDicts(n)
    /\ areas0 = areas
    /\ max_distance \in Thresholds
    /\ hulls = <<>> /\ distance = <<>> /\ near_stations = <<>>
    /\ pc = "hulls"
    /\ outcome = "call"
    /\ results = <<>> /\ results0 = <<>>
    /\ station = "None" /\ response = Num(Zero)
    /\ sparse_arg = TRUE /\ use_sparse = TRUE
    /\ factors = <<>> /\ bands = <<>>
    /\ sets = <<>> /\ newsets = <<>>

\* lines 118-123 raise on an area without three stations off one line
JoinHullError ==
    /\ pc = "hulls"
    /\ \E j \in 1..Len(areas) : Degenerate(areas[j][2])
    /\ outcome' = "QhullError"
    /\ pc' = "done"
    /\ UNCHANGED <<op, results, results0, areas, alignVars, mergeVars, joinVars>>

\* lines 115-140: hulls, distances between the areas, empty bridge map
JoinDistances ==
    /\ pc = "hulls"
    /\ \A j \in 1..Len(areas) : ~Degenerate(areas[j][2])
    /\ hulls' = [name \in AreaNames(areas) |-> HullOf(AreaOf(areas, name))]
    /\ distance' \in Distances(AreaPairs(areas), hulls')
    /\ near_stations' = <<>>
    /\ pc' = "loop"
    /\ UNCHANGED <<op, results, results0, outcome, areas, alignVars, mergeVars,
                   areas0, max_distance>>

\* lines 155-163: the distances of the merged area a1 to every other area
MergedDistances(dist, names, a1, a2) ==
    [p \in {{a, b} : a, b \in names} \cap (DOMAIN dist \ {{a1, a2}}) |->
        IF a1 \in p
        THEN LET a3 == CHOOSE a \in p : a # a1
                 dist1 == dist[{a1, a3}]
                 dist2 == dist[{a2, a3}]
             IN  IF dist2[1] < dist1[1] THEN dist2 ELSE dist1
        ELSE dist[p]]

\* one iteration of the while loop that merges (lines 141-163); tuple() of a
\* frozenset gives a1 and a2 in either order
JoinMerge ==
    /\ pc = "loop"
    /\ DOMAIN distance # {}
    /\ LET nearest_pair == NearestPair(distance)
           dist == distance[nearest_pair][1]
           s1 == distance[nearest_pair][2][1]
           s2 == distance[nearest_pair][2][2]
       IN  /\ ~(dist > max_distance)
           /\ near_stations' = [sta \in DOMAIN near_stations \cup {s1, s2} |->
                                  IF sta = s2 THEN s1
                                  ELSE IF sta = s1 THEN s2
                                  ELSE near_stations[sta]]
           /\ \E a1 \in nearest_pair :
                LET a2 == CHOOSE a \in nearest_pair : a # a1
                    kept == SeqFilter(areas, {t \in Range(areas) : t[1] # a2})
                IN  /\ areas' = [j \in 1..Len(kept) |->
                                   IF kept[j][1] = a1
                                   THEN <<a1, kept[j][2] \cup AreaOf(areas, a2)>>
                                   ELSE kept[j]]
                    /\ hulls' = [name \in DOMAIN hulls \ {a2} |->
                                   IF name = a1 THEN hulls[a1] \cup hulls[a2]
                                   ELSE hulls[name]]
                    /\ distance' = MergedDistances(distance, AreaNames(areas) \ {a2},
                                                   a1, a2)
    /\ UNCHANGED <<op, results, results0, outcome, pc, alignVars, mergeVars,
                   areas0, max_distance>>

\* the loop ends (lines 141, 144-145) and the function returns (line 164)
JoinReturn ==
    /\ pc = "loop"
    /\ IF DOMAIN distance = {} THEN TRUE
       ELSE distance[NearestPair(distance)][1] > max_distance
    /\ pc' = "done"
    /\ outcome' = "ok"
    /\ UNCHANGED <<op, results, results0, areas, alignVars, mergeVars, joinVars>>

NextJoin == JoinHullError \/ JoinDistances \/ JoinMerge \/ JoinReturn

SpecJoin == InitJoin /\ [][NextJoin]_vars

\* the least distance between a station of one area and a station of the other
MinDistance(stas1, stas2) ==
    CHOOSE d \in {Dist(t[1], t[2]) : t \in stas1 \X stas2} :
        \A t \in stas1 \X stas2 : d <= Dist(t[1], t[2])

(* C7. Bridging threshold: given two areas at least distance d apart,      *)
(* _join_unconnected_areas returns them as they were, with an empty bridge *)
(* map, if max_distance < d, and otherwise returns their union as one area *)
(* and a bridge map that holds a closest station pair in both directions;  *)
(* when the loop stops every remaining pair of areas has a recorded        *)
(* distance above max_distance.                                            *)
BridgingThreshold ==
    (op = "_join_unconnected_areas" /\ pc = "done") =>
        /\ outcome = "ok"
        /\ \A p \in DOMAIN distance : distance[p][1] > max_distance
        /\ Len(areas0) = 2 =>
             LET d == MinDistance(areas0[1][2], areas0[2][2])
             IN  IF max_distance < d
                 THEN areas = areas0 /\ DOMAIN near_stations = {}
                 ELSE /\ Len(areas) = 1
                      /\ areas[1][2] = areas0[1][2] \cup areas0[2][2]
                      /\ \E s1 \in areas0[1][2], s2 \in areas0[2][2] :
                            /\ Dist(s1, s2) = d
                            /\ DOMAIN near_stations = {s1, s2}
                            /\ near_stations[s1] = s2
                            /\ near_stations[s2] = s1

====
